---- MODULE Spec2Model ----
(***************************************************************************)
(* Session protocol engine of recoilme/mcproto (mcproto.go): ParseMc's     *)
(* per-connection read / dispatch / write loop, the scanXxxLine parsers    *)
(* (fmt.Sscanf on the raw line), the response encoder and the error        *)
(* classifier.  Bytes are one-character strings, lines and responses are   *)
(* sequences of bytes.                                                     *)
(***************************************************************************)
EXTENDS Integers, Sequences, FiniteSets, TLC

\* ------------------------------------------------------------------ bounds
\* Messages the client sends on the connection.
MaxSends == 2
\* bufio buffer size in bytes (option "buf"; bufio itself enforces >= 16).
BufSize == 32
\* Bytes in one short network segment.
SegSize == 3

\* ------------------------------------------------------------ byte strings
CR == "\r"
LF == "\n"
SPC == " "
Nil == "nil"

crlf == <<CR, LF>>
space == <<SPC>>

cmdSet == <<"s", "e", "t">>
cmdSetB == <<"S", "E", "T">>
cmdGet == <<"g", "e", "t">>
cmdGetB == <<"G", "E", "T">>
cmdGets == <<"g", "e", "t", "s">>
cmdGetsB == <<"G", "E", "T", "S">>
cmdClose == <<"c", "l", "o", "s", "e">>
cmdCloseB == <<"C", "L", "O", "S", "E">>
cmdDelete == <<"d", "e", "l", "e", "t", "e">>
cmdDeleteB == <<"D", "E", "L", "E", "T", "E">>
cmdIncr == <<"i", "n", "c", "r">>
cmdIncrB == <<"I", "N", "C", "R">>
cmdDecr == <<"d", "e", "c", "r">>
cmdDecrB == <<"D", "E", "C", "R">>

resultStored == <<"S", "T", "O", "R", "E", "D", CR, LF>>
resultNotStored == <<"N", "O", "T", "_", "S", "T", "O", "R", "E", "D", CR, LF>>
resultNotFound == <<"N", "O", "T", "_", "F", "O", "U", "N", "D", CR, LF>>
resultDeleted == <<"D", "E", "L", "E", "T", "E", "D", CR, LF>>
resultEnd == <<"E", "N", "D", CR, LF>>
resultError == <<"E", "R", "R", "O", "R", CR, LF>>

noreplyLower == <<"n", "o", "r", "e", "p", "l", "y">>
noreplyUpper == <<"N", "O", "R", "E", "P", "L", "Y">>

\* ------------------------------------------------------- package bytes
HasPrefix(s, prefix) ==
    /\ Len(s) >= Len(prefix)
    /\ SubSeq(s, 1, Len(prefix)) = prefix

HasSuffix(s, suffix) ==
    /\ Len(s) >= Len(suffix)
    /\ SubSeq(s, Len(s) - Len(suffix) + 1, Len(s)) = suffix

\* bytes.Count(s, sep) for a one-byte separator
RECURSIVE Count(_, _)
Count(s, c) ==
    IF s = <<>> THEN 0 ELSE (IF Head(s) = c THEN 1 ELSE 0) + Count(Tail(s), c)

RECURSIVE IndexFrom(_, _, _)
IndexFrom(s, c, i) ==
    IF i > Len(s) THEN -1 ELSE IF s[i] = c THEN i - 1 ELSE IndexFrom(s, c, i + 1)

\* bytes.Index(s, sep) for a one-byte separator, 0-based, -1 when absent
Index(s, c) == IndexFrom(s, c, 1)

\* Go's slice expression s[lo:hi] (0-based, hi exclusive); the caller checks bounds
Slice(s, lo, hi) == SubSeq(s, lo + 1, hi)

RECURSIVE SplitAt(_, _, _)
SplitAt(s, c, acc) ==
    IF s = <<>> THEN <<acc>>
    ELSE IF Head(s) = c THEN <<acc>> \o SplitAt(Tail(s), c, <<>>)
    ELSE SplitAt(Tail(s), c, Append(acc, Head(s)))

\* bytes.Split(s, sep) for a one-byte separator
Split(s, c) == SplitAt(s, c, <<>>)

\* ------------------------------------------------------- decimal numbers
Digits == <<"0", "1", "2", "3", "4", "5", "6", "7", "8", "9">>

IsDigit(c) == \E d \in 1..10 : Digits[d] = c

DigitVal(c) == (CHOOSE d \in 1..10 : Digits[d] = c) - 1

RECURSIVE ParseDec(_)
ParseDec(t) ==
    IF t = <<>> THEN 0
    ELSE 10 * ParseDec(SubSeq(t, 1, Len(t) - 1)) + DigitVal(t[Len(t)])

\* the %d verb of fmt.Fprintf for a non-negative number
RECURSIVE FormatDec(_)
FormatDec(n) ==
    IF n < 10 THEN <<Digits[n + 1]>>
    ELSE Append(FormatDec(n \div 10), Digits[(n % 10) + 1])

\* ------------------------------------------------------- fmt.Sscanf
\* fmt's isSpace, on the bytes the model uses
IsSpace(c) == c \in {SPC, "\t", CR, LF}

\* first position at or after p that does not hold a space other than newline
RECURSIVE SkipBlank(_, _)
SkipBlank(s, p) ==
    IF p <= Len(s) /\ IsSpace(s[p]) /\ s[p] # LF THEN SkipBlank(s, p + 1) ELSE p

\* first position after the run of spaces of the format that starts at i
RECURSIVE FmtRunEnd(_, _)
FmtRunEnd(f, i) ==
    IF i <= Len(f) /\ IsSpace(f[i]) THEN FmtRunEnd(f, i + 1) ELSE i

\* ss.advance: a newline of the format matches spaces, then newline or end of input
RECURSIVE MatchNewlines(_, _, _)
MatchNewlines(s, p, k) ==
    IF k = 0 THEN [p |-> p, err |-> FALSE]
    ELSE LET q == SkipBlank(s, p)
         IN  IF q > Len(s) THEN MatchNewlines(s, q, k - 1)
             ELSE IF s[q] = LF THEN MatchNewlines(s, q + 1, k - 1)
             ELSE [p |-> q, err |-> TRUE]

\* ss.advance: spaces of the format that end its run of spaces
MatchTrailing(s, p, newlines) ==
    IF newlines = 0 /\ p <= Len(s) /\ (~IsSpace(s[p]) \/ s[p] = LF)
    THEN [p |-> p, err |-> TRUE]
    ELSE [p |-> SkipBlank(s, p), err |-> FALSE]

\* ss.advance: after the newlines of a run of spaces matched as nl, its trailing spaces
ThenTrailing(nl, s, newlines, trailingSpace) ==
    IF nl.err \/ ~trailingSpace THEN nl ELSE MatchTrailing(s, nl.p, newlines)

\* ss.advance: a run of spaces of the format against the input from p
MatchSpaces(s, p, newlines, trailingSpace) ==
    ThenTrailing(MatchNewlines(s, p, newlines), s, newlines, trailingSpace)

\* ss.advance: the format from i against the input from p, up to the next verb
RECURSIVE Advance(_, _, _, _)
Advance(f, i, s, p) ==
    IF i > Len(f) THEN [i |-> i, p |-> p, err |-> FALSE]
    ELSE IF IsSpace(f[i]) THEN
        LET e == FmtRunEnd(f, i)
            sp == MatchSpaces(s, p, Count(SubSeq(f, i, e - 1), LF), f[e - 1] # LF)
        IN  IF sp.err THEN [i |-> i, p |-> p, err |-> TRUE]
            ELSE Advance(f, e, s, sp.p)
    ELSE IF f[i] = "%" THEN [i |-> i, p |-> p, err |-> i = Len(f)]
    ELSE IF p > Len(s) \/ s[p] # f[i] THEN [i |-> i, p |-> p, err |-> TRUE]
    ELSE Advance(f, i + 1, s, p + 1)

\* end of the token of non-space bytes that starts at p
RECURSIVE TokenEnd(_, _)
TokenEnd(s, p) ==
    IF p <= Len(s) /\ ~IsSpace(s[p]) THEN TokenEnd(s, p + 1) ELSE p

RECURSIVE DigitsEnd(_, _)
DigitsEnd(s, p) ==
    IF p <= Len(s) /\ IsDigit(s[p]) THEN DigitsEnd(s, p + 1) ELSE p

RECURSIVE SigDigits(_)
SigDigits(t) ==
    IF Len(t) > 1 /\ Head(t) = "0" THEN SigDigits(Tail(t)) ELSE t

RECURSIVE LexLE(_, _)
LexLE(a, b) ==
    IF a = <<>> THEN TRUE
    ELSE IF DigitVal(Head(a)) # DigitVal(Head(b)) THEN DigitVal(Head(a)) < DigitVal(Head(b))
    ELSE LexLE(Tail(a), Tail(b))

\* the largest magnitude of each integer kind, in decimal
MaxMagnitude(kind, negative) ==
    CASE kind = "uint32" -> <<"4", "2", "9", "4", "9", "6", "7", "2", "9", "5">>
      [] kind = "int32" ->
            <<"2", "1", "4", "7", "4", "8", "3", "6", "4", IF negative THEN "8" ELSE "7">>
      [] kind = "int" ->
            <<"9", "2", "2", "3", "3", "7", "2", "0", "3", "6", "8", "5", "4", "7", "7", "5",
              "8", "0", IF negative THEN "8" ELSE "7">>
      [] kind = "uint64" ->
            <<"1", "8", "4", "4", "6", "7", "4", "4", "0", "7", "3", "7", "0", "9", "5", "5",
              "1", "6", "1", "5">>

\* strconv.ParseInt / ParseUint range and scanInt's bit-size check
FitsIn(tok, kind, negative) ==
    LET d == SigDigits(tok)
        m == MaxMagnitude(kind, negative)
    IN  Len(d) < Len(m) \/ (Len(d) = Len(m) /\ LexLE(d, m))

\* ss.scanOne for a *string (verb s) or an integer pointer (verb d), input at p
ScanOne(verb, kind, s, p) ==
    LET bad == [p |-> p, err |-> TRUE, val |-> <<>>]
    IN  IF p > Len(s) THEN bad
        ELSE IF kind = "string" THEN
            IF verb # "s" THEN bad
            ELSE LET e == TokenEnd(s, p)
                 IN  [p |-> e, err |-> FALSE, val |-> SubSeq(s, p, e - 1)]
        ELSE IF verb # "d" THEN bad
        ELSE LET signed == kind \in {"int", "int32"}
                 hasSign == signed /\ s[p] \in {"+", "-"}
                 negative == hasSign /\ s[p] = "-"
                 d == IF hasSign THEN p + 1 ELSE p
                 e == DigitsEnd(s, d)
                 tok == SubSeq(s, d, e - 1)
             IN  IF e = d \/ ~FitsIn(tok, kind, negative) THEN bad
                 ELSE [p |-> e, err |-> FALSE,
                       val |-> IF negative THEN 0 - ParseDec(tok) ELSE ParseDec(tok)]

\* ss.doScanf: n is numProcessed, vals the operands stored so far
RECURSIVE DoScanf(_, _, _, _, _, _)

\* doScanf once scanOne returned r for the verb at f[i]
AfterScanOne(r, f, i, s, a, vals) ==
    IF r.err THEN [n |-> Len(vals), err |-> TRUE, vals |-> vals]
    ELSE DoScanf(f, i + 2, s, r.p, a, Append(vals, r.val))

\* doScanf once ss.advance returned adv
AfterAdvance(adv, f, s, a, vals) ==
    LET stop == [n |-> Len(vals), err |-> TRUE, vals |-> vals]
        q == SkipBlank(s, adv.p)
    IN  IF adv.err THEN stop
        ELSE IF adv.i > Len(f)
        THEN [n |-> Len(vals), err |-> Len(vals) < Len(a), vals |-> vals]
        ELSE IF q <= Len(s) /\ s[q] = LF THEN stop
        ELSE IF Len(vals) >= Len(a) THEN stop
        ELSE AfterScanOne(ScanOne(f[adv.i + 1], a[Len(vals) + 1], s, q), f, adv.i, s, a,
                          vals)

DoScanf(f, i, s, p, a, vals) == AfterAdvance(Advance(f, i, s, p), f, s, a, vals)

Sscanf(str, format, a) == DoScanf(format, 1, str, 1, a, <<>>)

\* ------------------------------------------------------- line scanners
verbS == <<SPC, "%", "s">>
verbD == <<SPC, "%", "d">>

\* the operand stored at position k, or the zero value it was initialised to
Stored(r, k, zero) == IF Len(r.vals) >= k THEN r.vals[k] ELSE zero

\* A faulty variant of setLineResult: the error of Sscanf is dropped.
setLineResultNoErr(r, n, noreply) ==
    [key |-> Stored(r, 1, <<>>), flags |-> Stored(r, 2, 0), exp |-> Stored(r, 3, 0),
     size |-> IF r.n # n THEN -1 ELSE Stored(r, 4, 0),
     noreply |-> noreply, err |-> FALSE]

\* lines 410-413: what scanSetLine returns once Sscanf returned r for n operands
setLineResult(r, n, noreply) ==
    [key |-> Stored(r, 1, <<>>), flags |-> Stored(r, 2, 0), exp |-> Stored(r, 3, 0),
     size |-> IF r.n # n THEN -1 ELSE Stored(r, 4, 0),
     noreply |-> noreply, err |-> r.err]

scanSetLine(line, isCap) ==
    LET noreplys == <<>>
        cmd == IF isCap THEN cmdSetB ELSE cmdSet
        four == Count(line, SPC) = 4
        pattern == IF four THEN cmd \o verbS \o verbD \o verbD \o verbD \o crlf
                   ELSE cmd \o verbS \o verbD \o verbD \o verbD \o verbS \o crlf
        dest == IF four THEN <<"string", "uint32", "int32", "int">>
                ELSE <<"string", "uint32", "int32", "int", "string">>
        \* line 406 tests noreplys before Sscanf has stored anything in it
        noreply == noreplys = noreplyLower \/ noreplys = noreplyUpper
    IN  setLineResult(Sscanf(line, pattern, dest), Len(dest), noreply)

\* lines 469-472: what scanDeleteLine returns once Sscanf returned r for n operands
deleteLineResult(r, n, noreply) ==
    [key |-> Stored(r, 1, <<>>), noreply |-> noreply, err |-> r.n # n \/ r.err]

scanDeleteLine(line, isCap) ==
    LET noreplys == <<>>
        cmd == IF isCap THEN cmdDeleteB ELSE cmdDelete
        one == Count(line, SPC) = 1
        pattern == IF one THEN cmd \o verbS \o crlf ELSE cmd \o verbS \o verbS \o crlf
        dest == IF one THEN <<"string">> ELSE <<"string", "string">>
        noreply == noreplys = noreplyLower \/ noreplys = noreplyUpper
    IN  deleteLineResult(Sscanf(line, pattern, dest), Len(dest), noreply)

\* lines 502-505: what scanIncrDecrLine returns once Sscanf returned r for n operands
incrDecrLineResult(r, n, noreply) ==
    [key |-> Stored(r, 1, <<>>), val |-> Stored(r, 2, 0), noreply |-> noreply,
     err |-> r.n # n \/ r.err]

scanIncrDecrLine(line, incr, isCap) ==
    LET noreplys == <<>>
        cmd == IF isCap THEN (IF incr THEN cmdIncrB ELSE cmdDecrB)
               ELSE (IF incr THEN cmdIncr ELSE cmdDecr)
        two == Count(line, SPC) = 2
        pattern == IF two THEN cmd \o verbS \o verbD \o crlf
                   ELSE cmd \o verbS \o verbD \o verbS \o crlf
        dest == IF two THEN <<"string", "uint64">> ELSE <<"string", "uint64", "string">>
        noreply == noreplys = noreplyLower \/ noreplys = noreplyUpper
    IN  incrDecrLineResult(Sscanf(line, pattern, dest), Len(dest), noreply)

\* resumableError: the four cache-level errors
resumableError(err) ==
    err \in {"ErrCacheMiss", "ErrCASConflict", "ErrNotStored", "ErrMalformedKey"}

\* ------------------------------------------------------- storage capability
\* A map from key to value bytes; an absent key is outside the domain.
EngineGet(st, key) == IF key \in DOMAIN st THEN st[key] ELSE Nil

EngineSet(st, key, value) ==
    [k \in DOMAIN st \cup {key} |-> IF k = key THEN value ELSE st[k]]

EngineRemove(st, key) == [k \in DOMAIN st \ {key} |-> st[k]]

IsNumber(v) == v # Nil /\ v # <<>> /\ \A i \in 1..Len(v) : IsDigit(v[i])

EngineFound(st, key) == key \in DOMAIN st

EngineCounter(st, key) == key \in DOMAIN st /\ IsNumber(st[key])

EngineIncr(st, key, delta) == ParseDec(st[key]) + delta

EngineDecr(st, key, delta) ==
    IF ParseDec(st[key]) > delta THEN ParseDec(st[key]) - delta ELSE 0

\* How the environment of a connection behaves: the capability asks for
\* suppression (enr), the capability fails (eerr), socket writes fail (~wok),
\* reads can fail other than by EOF: an idle client, a failing socket (rdfail),
\* another connection is served by the same process on the same store (peer).
NoFault ==
    [enr |-> FALSE, eerr |-> "nil", wok |-> TRUE, rdfail |-> FALSE, peer |-> FALSE]

\* The environments of a connection: a faultless one, one for each way of
\* failing, and a faultless one with a concurrent session.
Modes ==
    { NoFault,
      [NoFault EXCEPT !.enr = TRUE],
      [NoFault EXCEPT !.eerr = "ErrNotStored"],
      [NoFault EXCEPT !.eerr = "ErrServerError"],
      [NoFault EXCEPT !.wok = FALSE],
      [NoFault EXCEPT !.rdfail = TRUE],
      [NoFault EXCEPT !.peer = TRUE] }

\* ------------------------------------------------------- response encoder
\* rw.Write + rw.Flush of one response: the bytes that reach the socket
Flushed(e, bytes) == IF e.wok THEN bytes ELSE <<>>

\* error of rw.Write / rw.Flush
WriteErr(e) == IF e.wok THEN "nil" ELSE "io"

valueBlock(key, value) ==
    <<"V", "A", "L", "U", "E", SPC>> \o key \o <<SPC, "0", SPC>> \o FormatDec(Len(value))
        \o crlf \o value \o crlf

numberLine(res) == FormatDec(res) \o crlf

\* protocolError: ERROR is written and flushed, the write's error is returned
protocolError(e) == [resp |-> Flushed(e, resultError), err |-> WriteErr(e)]

\* ------------------------------------------------------- ParseMc, one iteration
\* The outcome of the switch on one line: the store, the bytes that reached the
\* socket, the capability calls, the loop's err variable at "check err", whether a
\* write was attempted, whether the goroutine panicked.
Outcome(st, resp, ops, err, wrote, panic) ==
    [store |-> st, resp |-> resp, ops |-> ops, err |-> err, wrote |-> wrote,
     panic |-> panic]

Call(op, key, arg, noreply) == [op |-> op, key |-> key, arg |-> arg, noreply |-> noreply]

\* A faulty variant of setStore: the whole item, line end included, is the value.
setStoreWholeItem(p, b, st, e) ==
    IF p.size < 0 THEN Outcome(st, <<>>, <<>>, p.rerr, FALSE, TRUE)
    ELSE LET ops == <<Call("Set", p.key, b, p.noreply)>>
         IN  IF e.eerr # "nil" THEN Outcome(st, <<>>, ops, p.rerr, FALSE, FALSE)
             ELSE IF e.enr
             THEN Outcome(EngineSet(st, p.key, b), <<>>, ops, p.rerr, FALSE, FALSE)
             ELSE Outcome(EngineSet(st, p.key, b), Flushed(e, resultStored), ops,
                          p.rerr, TRUE, FALSE)

\* lines 198-226: db.Set on the item bytes b, then the reply
\* (every err of the case is the case's own variable: the loop's err stays rerr)
setStore(p, b, st, e) ==
    IF p.size < 0 THEN Outcome(st, <<>>, <<>>, p.rerr, FALSE, TRUE)
    ELSE LET value == Slice(b, 0, p.size)
             ops == <<Call("Set", p.key, value, p.noreply)>>
         IN  IF e.eerr # "nil" THEN Outcome(st, <<>>, ops, p.rerr, FALSE, FALSE)
             ELSE IF e.enr
             THEN Outcome(EngineSet(st, p.key, value), <<>>, ops, p.rerr, FALSE, FALSE)
             ELSE Outcome(EngineSet(st, p.key, value), Flushed(e, resultStored), ops,
                          p.rerr, TRUE, FALSE)

\* A faulty variant of getReply: END follows a value block only.
getReplyNoEnd(e, key, value) ==
    Flushed(e, IF e.eerr = "nil" /\ value # Nil
               THEN valueBlock(key, value) \o resultEnd ELSE <<>>)

\* lines 243-257: what the single-key get writes for what db.Get returned
getReply(e, key, value) ==
    Flushed(e, (IF e.eerr = "nil" /\ value # Nil THEN valueBlock(key, value) ELSE <<>>)
               \o resultEnd)

\* lines 228-282
getCase(line, rerr, st, e) ==
    LET cntspace == Count(line, SPC)
        bad == cntspace = 0 \/ ~HasSuffix(line, crlf)
        pe == IF bad THEN protocolError(e) ELSE [resp |-> <<>>, err |-> rerr]
        lo == Index(line, SPC) + 1
        hi == Len(line) - 2
        key == Slice(line, lo, hi)
        value == IF e.eerr # "nil" THEN Nil ELSE EngineGet(st, key)
        args == Split(Slice(line, 0, hi), SPC)
    IN  IF bad /\ pe.err # "nil" THEN Outcome(st, pe.resp, <<>>, pe.err, TRUE, FALSE)
        ELSE IF cntspace = 1 THEN
            IF lo > hi THEN Outcome(st, pe.resp, <<>>, pe.err, bad, TRUE)
            ELSE IF e.enr
            THEN Outcome(st, pe.resp, <<Call("Get", key, Nil, FALSE)>>, pe.err, bad, FALSE)
            ELSE Outcome(st, pe.resp \o getReply(e, key, value),
                         <<Call("Get", key, Nil, FALSE)>>, pe.err, TRUE, FALSE)
        ELSE Outcome(st, pe.resp, <<Call("Gets", Tail(args), Nil, FALSE)>>, pe.err, bad,
                     FALSE)

\* A faulty variant of deletedLine: what db.Delete reported is not looked at.
deletedLineAlways(deleted) == resultDeleted

\* lines 293-297
deletedLine(deleted) == IF deleted THEN resultDeleted ELSE resultNotFound

\* A faulty variant of deleteReply: the error of db.Delete reaches "check err".
deleteReplyErrKept(r, rerr, st, e) ==
    LET deleted == e.eerr = "nil" /\ EngineFound(st, r.key)
        st2 == IF e.eerr = "nil" THEN EngineRemove(st, r.key) ELSE st
        ops == <<Call("Delete", r.key, Nil, r.noreply)>>
        kept == IF e.eerr # "nil" THEN e.eerr ELSE rerr
    IN  IF r.err THEN Outcome(st, protocolError(e).resp, <<>>, rerr, TRUE, FALSE)
        ELSE IF r.noreply THEN Outcome(st, <<>>, <<>>, rerr, FALSE, FALSE)
        ELSE IF e.enr THEN Outcome(st2, <<>>, ops, kept, FALSE, FALSE)
        ELSE Outcome(st2, Flushed(e, deletedLine(deleted)), ops, kept, TRUE, FALSE)

\* lines 289-315 for a delete line that scanDeleteLine scanned as r
deleteReply(r, rerr, st, e) ==
    LET deleted == e.eerr = "nil" /\ EngineFound(st, r.key)
        st2 == IF e.eerr = "nil" THEN EngineRemove(st, r.key) ELSE st
        ops == <<Call("Delete", r.key, Nil, r.noreply)>>
    IN  IF r.err THEN Outcome(st, protocolError(e).resp, <<>>, rerr, TRUE, FALSE)
        ELSE IF r.noreply THEN Outcome(st, <<>>, <<>>, rerr, FALSE, FALSE)
        ELSE IF e.enr THEN Outcome(st2, <<>>, ops, rerr, FALSE, FALSE)
        ELSE Outcome(st2, Flushed(e, deletedLine(deleted)), ops, rerr, TRUE, FALSE)

\* lines 288-315
deleteCase(line, rerr, st, e) ==
    deleteReply(scanDeleteLine(line, HasPrefix(line, cmdDeleteB)), rerr, st, e)

\* A faulty variant of counterLine: isFound is not looked at.
counterLineAlways(isFound, res) == numberLine(res)

\* lines 321-325 (incr) and 350-354 (decr)
counterLine(isFound, res) == IF isFound THEN numberLine(res) ELSE resultNotFound

\* lines 317-343 (incr) and 346-372 (decr) for a line that scanIncrDecrLine
\* scanned as r
incrDecrReply(r, incr, rerr, st, e) ==
    LET isFound == e.eerr = "nil" /\ EngineCounter(st, r.key)
        res == IF ~isFound THEN 0
               ELSE IF incr THEN EngineIncr(st, r.key, r.val)
               ELSE EngineDecr(st, r.key, r.val)
        st2 == IF isFound THEN EngineSet(st, r.key, FormatDec(res)) ELSE st
        ops == <<Call(IF incr THEN "Incr" ELSE "Decr", r.key, r.val, r.noreply)>>
    IN  IF r.err THEN Outcome(st, protocolError(e).resp, <<>>, rerr, TRUE, FALSE)
        ELSE IF r.noreply THEN Outcome(st, <<>>, <<>>, rerr, FALSE, FALSE)
        ELSE IF e.enr THEN Outcome(st2, <<>>, ops, rerr, FALSE, FALSE)
        ELSE Outcome(st2, Flushed(e, counterLine(isFound, res)), ops, rerr, TRUE, FALSE)

\* lines 316-343 (incr) and 345-372 (decr); isCap is what the call site passes
incrDecrCase(line, incr, isCap, rerr, st, e) ==
    incrDecrReply(scanIncrDecrLine(line, incr, isCap), incr, rerr, st, e)

\* the case of the switch (lines 173-374) that a line selects: first match wins
caseOf(line) ==
    IF HasPrefix(line, cmdSet) \/ HasPrefix(line, cmdSetB) THEN "set"
    ELSE IF HasPrefix(line, cmdGet) \/ HasPrefix(line, cmdGetB)
            \/ HasPrefix(line, cmdGets) \/ HasPrefix(line, cmdGetsB) THEN "get"
    ELSE IF HasPrefix(line, cmdClose) \/ HasPrefix(line, cmdCloseB) THEN "close"
    ELSE IF HasPrefix(line, cmdDelete) \/ HasPrefix(line, cmdDeleteB) THEN "delete"
    ELSE IF HasPrefix(line, cmdIncr) \/ HasPrefix(line, cmdIncrB) THEN "incr"
    ELSE IF HasPrefix(line, cmdDecr) \/ HasPrefix(line, cmdDecrB) THEN "decr"
    ELSE "none"

\* A faulty variant of closeCase: the error is one of the resumable ones.
closeCaseResumable(st) == Outcome(st, <<>>, <<>>, "ErrNotStored", FALSE, FALSE)

\* lines 284-286
closeCase(st) == Outcome(st, <<>>, <<>>, "Close", FALSE, FALSE)

\* A faulty variant of noCase: a default case that rejects the line.
noCaseError(rerr, st) == Outcome(st, resultError, <<>>, rerr, TRUE, FALSE)

\* line 374: the switch has no default, a line that selects no case does nothing
noCase(rerr, st) == Outcome(st, <<>>, <<>>, rerr, FALSE, FALSE)

\* every case but set; the incr case (line 317) and the decr case (line 346)
\* both pass HasPrefix(line, cmdIncrB) as isCap
dispatch(line, rerr, st, e) ==
    CASE caseOf(line) = "get" -> getCase(line, rerr, st, e)
      [] caseOf(line) = "close" -> closeCase(st)
      [] caseOf(line) = "delete" -> deleteCase(line, rerr, st, e)
      [] caseOf(line) \in {"incr", "decr"} ->
            incrDecrCase(line, caseOf(line) = "incr", HasPrefix(line, cmdIncrB), rerr, st, e)
      [] OTHER -> noCase(rerr, st)

\* ------------------------------------------------------- client messages
RECURSIVE Join(_)
Join(ws) ==
    IF Len(ws) = 1 THEN ws[1] ELSE ws[1] \o space \o Join(Tail(ws))

Line(ws) == Join(ws) \o crlf

keyK == <<"k">>
keyJ == <<"j">>
dataFive == <<"5">>

msgSet == Line(<<cmdSet, keyK, <<"0">>, <<"0">>, <<"1">>>>) \o dataFive \o crlf
msgSetB == Line(<<cmdSetB, keyK, <<"0">>, <<"0">>, <<"1">>>>) \o dataFive \o crlf
msgSetLine == Line(<<cmdSet, keyK, <<"0">>, <<"0">>, <<"1">>>>)
msgData == dataFive \o crlf
msgSetNoreply ==
    Line(<<cmdSet, keyK, <<"0">>, <<"0">>, <<"1">>, noreplyLower>>) \o dataFive \o crlf
msgSetHello == Line(<<cmdSet, <<"h", "e", "l", "l", "o">>>>)
msgSetSix == Line(<<cmdSet, keyK, <<"0">>, <<"0">>, <<"1">>, noreplyLower, <<"x">>>>)
msgSetBadFlags == Line(<<cmdSet, keyK, <<"x">>, <<"0">>, <<"1">>>>)
msgSetMinus1 == Line(<<cmdSet, keyK, <<"0">>, <<"0">>, <<"-", "1">>>>)
msgSetMinus2 == Line(<<cmdSet, keyK, <<"0">>, <<"0">>, <<"-", "2">>>>)
msgSetMinus5 == Line(<<cmdSet, keyK, <<"0">>, <<"0">>, <<"-", "5">>>>)
msgGet == Line(<<cmdGet, keyK>>)
msgGetB == Line(<<cmdGetB, keyK>>)
msgGets == Line(<<cmdGets, keyK>>)
msgGetsB == Line(<<cmdGetsB, keyK>>)
msgGetMulti == Line(<<cmdGet, keyK, keyJ>>)
msgGetBare == Line(<<cmdGet>>)
msgGetLF == cmdGet \o space \o keyK \o <<LF>>
msgGetX == Line(<<cmdGet \o <<"x">>, keyK>>)
msgDelete == Line(<<cmdDelete, keyK>>)
msgDeleteB == Line(<<cmdDeleteB, keyK>>)
msgDeleteNoreply == Line(<<cmdDelete, keyK, noreplyLower>>)
msgDeleteBare == Line(<<cmdDelete>>)
msgIncr == Line(<<cmdIncr, keyK, <<"2">>>>)
msgIncrB == Line(<<cmdIncrB, keyK, <<"2">>>>)
msgIncrNoreply == Line(<<cmdIncr, keyK, <<"2">>, noreplyUpper>>)
msgIncrBad == Line(<<cmdIncr, keyK, <<"x">>>>)
msgDecr == Line(<<cmdDecr, keyK, <<"2">>>>)
msgDecrB == Line(<<cmdDecrB, keyK, <<"2">>>>)
msgClose == Line(<<cmdClose>>)
msgCloseB == Line(<<cmdCloseB>>)
msgFoo == Line(<<<<"f", "o", "o">>, keyK>>)
msgMixed == Line(<<<<"G", "e", "t">>, keyK>>)

msgGetNoLF == cmdGet \o space \o keyK

\* an item of 20 bytes: with its line, more than one fill of the reader holds
dataLong ==
    <<"0", "1", "2", "3", "4", "5", "6", "7", "8", "9",
      "a", "b", "c", "d", "e", "f", "g", "h", "i", "j">>
msgSetLong == Line(<<cmdSet, keyK, <<"0">>, <<"0">>, <<"2", "0">>>>) \o dataLong \o crlf

\* the bytes of each message, by name
Msgs ==
    [set |-> msgSet, SET |-> msgSetB, setLine |-> msgSetLine, data |-> msgData,
     setNoreply |-> msgSetNoreply, setHello |-> msgSetHello, setSix |-> msgSetSix,
     setBadFlags |-> msgSetBadFlags, setMinus1 |-> msgSetMinus1,
     setMinus2 |-> msgSetMinus2, setMinus5 |-> msgSetMinus5,
     get |-> msgGet, GET |-> msgGetB, gets |-> msgGets, GETS |-> msgGetsB,
     getMulti |-> msgGetMulti, getBare |-> msgGetBare, getLF |-> msgGetLF,
     getX |-> msgGetX, getNoLF |-> msgGetNoLF,
     delete |-> msgDelete, DELETE |-> msgDeleteB, deleteNoreply |-> msgDeleteNoreply,
     deleteBare |-> msgDeleteBare,
     incr |-> msgIncr, INCR |-> msgIncrB, incrNoreply |-> msgIncrNoreply,
     incrBad |-> msgIncrBad, decr |-> msgDecr, DECR |-> msgDecrB,
     close |-> msgClose, CLOSE |-> msgCloseB, foo |-> msgFoo, mixed |-> msgMixed,
     setLong |-> msgSetLong]

\* The vocabularies a client draws its messages from, one per conversation.
Profiles ==
    << {"set", "get"}, {"setLine", "data", "get"},
       {"setNoreply", "get"}, {"deleteNoreply", "incrNoreply"},
       {"setHello", "setSix", "get"}, {"setMinus1", "setBadFlags", "get"},
       {"setMinus2", "setMinus5"},
       {"SET", "GET"}, {"DELETE", "INCR", "DECR"}, {"CLOSE", "GETS"},
       {"delete", "get"}, {"incr", "decr", "gets"},
       {"close", "get"},
       {"getMulti", "getBare", "getLF"}, {"deleteBare", "incrBad", "get"},
       {"foo", "get"}, {"mixed", "getX"}, {"getNoLF", "data"}, {"setLong", "get"} >>

InitStores == { [k \in {} |-> <<>>], [k \in {keyK} |-> dataFive] }

ReadErrors == {"timeout", "reset"}

\* ------------------------------------------------------- state
VARIABLES
    profile,   \* the client's vocabulary, an index of Profiles
    sent,      \* the names of the messages the client has sent, in order
    eof,       \* the client has closed its side
    net,       \* bytes sent and still on their way
    sock,      \* bytes that arrived and that no read has taken yet
    rbuf,      \* bytes the iteration's bufio.Reader holds unconsumed
    pc,        \* AwaitingLine, ReadingItemBytes, Closed or Panicked
    pend,      \* the Set whose item bytes are being read, or Nil
    item,      \* item bytes read so far
    store,     \* the storage capability's map
    out,       \* bytes written to the socket
    hist,      \* one record per iteration of the loop that handled a line
    idled,     \* a read of a line failed with no byte read, other than by EOF
    env,       \* how the environment of this connection behaves
    peer       \* the session of the other connection: where it is, what it wrote

vars ==
    <<profile, sent, eof, net, sock, rbuf, pc, pend, item, store, out, hist, idled, env,
      peer>>

Min(a, b) == IF a < b THEN a ELSE b

Init ==
    /\ profile \in DOMAIN Profiles
    /\ sent = <<>>
    /\ eof = FALSE
    /\ net = <<>>
    /\ sock = <<>>
    /\ rbuf = <<>>
    /\ pc = "AwaitingLine"
    /\ pend = Nil
    /\ item = <<>>
    /\ store \in InitStores
    /\ out = <<>>
    /\ hist = <<>>
    /\ idled = FALSE
    /\ env \in Modes
    /\ peer = [pc |-> IF env.peer THEN "AwaitingLine" ELSE "Absent", out |-> <<>>]

\* lines 376-384 and the deferred c.Close(): where the iteration leaves the session
after(o) ==
    IF o.panic THEN "Panicked"
    ELSE IF o.err # "nil" /\ ~resumableError(o.err) THEN "Closed"
    ELSE "AwaitingLine"

\* A panic that ParseMc's goroutine does not recover ends the process, and with
\* it the session that the accept loop started for the other connection.
crashed(other) ==
    IF other.pc = "Absent" THEN other ELSE [other EXCEPT !.pc = "Killed"]

\* An iteration that read b as item bytes ends with outcome o; the next one
\* starts with a new bufio reader and writer (line 159), so what the old reader
\* still held is gone.
Finish(line, rerr, ferr, b, o) ==
    /\ store' = o.store
    /\ out' = out \o o.resp
    /\ pc' = after(o)
    /\ hist' = Append(hist, [line |-> line, rerr |-> rerr, ferr |-> ferr, item |-> b,
                             before |-> store, ops |-> o.ops, resp |-> o.resp,
                             wrote |-> o.wrote, end |-> after(o)])
    /\ peer' = IF o.panic THEN crashed(peer) ELSE peer
    /\ rbuf' = <<>>
    /\ pend' = Nil
    /\ item' = <<>>

\* lines 176-226 for a set line that scanSetLine scanned as r; rest is what the
\* reader holds after the line
setCase(r, line, rerr, rest) ==
    LET p == [key |-> r.key, flags |-> r.flags, exp |-> r.exp, size |-> r.size,
              noreply |-> r.noreply, rerr |-> rerr, line |-> line]
        need == r.size + 2
    IN  IF r.err \/ r.size = -1
        THEN Finish(line, rerr, "nil", <<>>,
                    Outcome(store, Flushed(env, resultError), <<>>, rerr, TRUE, FALSE))
        ELSE IF need < 0
        THEN Finish(line, rerr, "nil", <<>>, Outcome(store, <<>>, <<>>, rerr, FALSE, TRUE))
        ELSE IF Len(rest) >= need
        THEN Finish(line, rerr, "nil", SubSeq(rest, 1, need),
                    setStore(p, SubSeq(rest, 1, need), store, env))
        ELSE IF rerr \in ReadErrors
        THEN Finish(line, rerr, rerr, rest, Outcome(store, <<>>, <<>>, rerr, FALSE, FALSE))
        ELSE /\ pc' = "ReadingItemBytes"
             /\ pend' = p
             /\ item' = rest
             /\ rbuf' = <<>>
             /\ UNCHANGED <<store, out, hist, peer>>

\* lines 172-374 for a line that ReadSlice returned with error rerr; rest is what
\* the reader holds after the line
HandleLine(line, rerr, rest) ==
    IF caseOf(line) = "set"
    THEN setCase(scanSetLine(line, HasPrefix(line, cmdSetB)), line, rerr, rest)
    ELSE Finish(line, rerr, "nil", <<>>, dispatch(line, rerr, store, env))

\* ------------------------------------------------------- actions
ClientSend(m) ==
    /\ pc \in {"AwaitingLine", "ReadingItemBytes"}
    /\ ~eof
    /\ Len(sent) < MaxSends
    /\ sent' = Append(sent, m)
    /\ net' = net \o Msgs[m]
    /\ UNCHANGED <<profile, eof, sock, rbuf, pc, pend, item, store, out, hist, peer, idled, env>>

\* The client closes once the session has taken all it sent: closing earlier
\* shows on the server side no sooner, as EOF follows the last byte.
ClientClose ==
    /\ pc \in {"AwaitingLine", "ReadingItemBytes"}
    /\ ~eof
    /\ net = <<>> /\ sock = <<>>
    /\ eof' = TRUE
    /\ UNCHANGED <<profile, sent, net, sock, rbuf, pc, pend, item, store, out, hist, peer,
                   idled, env>>

\* The sizes in which the network hands over the bytes on their way: the bytes
\* up to the end of a line, all of them, or, to a socket that holds nothing, a
\* short segment of SegSize bytes.
SegSizes(bytes) ==
    {n \in {Index(bytes, LF) + 1, Len(bytes)} \cup (IF sock = <<>> THEN {SegSize} ELSE {}) :
        1 <= n /\ n <= Len(bytes)}

Deliver(n) ==
    /\ pc \in {"AwaitingLine", "ReadingItemBytes"}
    /\ sock' = sock \o SubSeq(net, 1, n)
    /\ net' = SubSeq(net, n + 1, Len(net))
    /\ UNCHANGED <<profile, sent, eof, rbuf, pc, pend, item, store, out, hist, peer, idled, env>>

\* rw.ReadSlice('\n'), line 161: one read from the socket takes what has arrived
ReadLine ==
    /\ pc = "AwaitingLine"
    /\ sock # <<>>
    /\ LET n == Min(Len(sock), BufSize - Len(rbuf))
           buf == rbuf \o SubSeq(sock, 1, n)
           nl == Index(buf, LF) + 1
           cut == IF nl > 0 THEN nl ELSE Len(buf)
       IN  /\ sock' = SubSeq(sock, n + 1, Len(sock))
           /\ IF nl > 0 \/ Len(buf) >= BufSize
              THEN HandleLine(SubSeq(buf, 1, cut),
                              IF nl > 0 THEN "nil" ELSE "ErrBufferFull",
                              SubSeq(buf, cut + 1, Len(buf)))
              ELSE /\ rbuf' = buf
                   /\ UNCHANGED <<pc, pend, item, store, out, hist, peer>>
    /\ UNCHANGED <<profile, sent, eof, net, idled, env>>

\* io.ReadFull(rw, b), line 193: one read from the socket takes what has arrived;
\* what it takes beyond the item stays in the reader
ReadItem ==
    /\ pc = "ReadingItemBytes"
    /\ sock # <<>>
    /\ LET remaining == pend.size + 2 - Len(item)
           n == Min(Len(sock), IF remaining >= BufSize THEN remaining ELSE BufSize)
           got == item \o SubSeq(sock, 1, Min(n, remaining))
       IN  /\ sock' = SubSeq(sock, n + 1, Len(sock))
           /\ IF Len(got) = pend.size + 2
              THEN Finish(pend.line, pend.rerr, "nil", got,
                          setStore(pend, got, store, env))
              ELSE /\ item' = got
                   /\ UNCHANGED <<rbuf, pc, pend, store, out, hist, peer>>
    /\ UNCHANGED <<profile, sent, eof, net, idled, env>>

\* The read finds no byte and nothing is on its way: the client closed its
\* side (EOF), or it stayed idle past the deadline of line 160, or the socket
\* failed.  Lines 163-172: EOF leaves the loop; any other error is printed, and
\* with no byte read the loop goes on to its next iteration.
ReadFail(kind) ==
    /\ sock = <<>> /\ net = <<>>
    /\ IF kind = "EOF" THEN eof ELSE ~eof /\ env.rdfail
    /\ \/ /\ pc = "AwaitingLine"
          /\ IF kind = "EOF"
             THEN /\ pc' = "Closed"
                  /\ UNCHANGED <<rbuf, pend, item, store, out, hist, peer, idled>>
             ELSE IF Len(rbuf) > 0
             THEN /\ HandleLine(rbuf, kind, <<>>)
                  /\ UNCHANGED idled
             ELSE /\ idled' = TRUE
                  /\ UNCHANGED <<rbuf, pc, pend, item, store, out, hist, peer>>
       \/ /\ pc = "ReadingItemBytes"
          /\ Finish(pend.line, pend.rerr, kind, item,
                    Outcome(store, <<>>, <<>>, pend.rerr, FALSE, FALSE))
          /\ UNCHANGED idled
    /\ UNCHANGED <<profile, sent, eof, net, sock, env>>

\* The other session handles get k of its client: db.Get on the shared store,
\* and the reply on its own connection.
PeerGet ==
    /\ peer.pc = "AwaitingLine"
    /\ peer.out = <<>>
    /\ peer' = [peer EXCEPT !.out = getReply(NoFault, keyK, EngineGet(store, keyK))]
    /\ UNCHANGED <<profile, sent, eof, net, sock, rbuf, pc, pend, item, store, out, hist,
                   idled, env>>

Next ==
    \/ PeerGet
    \/ \E m \in Profiles[profile] : ClientSend(m)
    \/ ClientClose
    \/ \E n \in SegSizes(net) : Deliver(n)
    \/ ReadLine
    \/ ReadItem
    \/ \E kind \in ReadErrors \cup {"EOF"} : ReadFail(kind)

Spec == Init /\ [][Next]_vars

\* ------------------------------------------------------- properties
\* The iteration h handled a line that ReadSlice returned whole: \r\n at its end.
Whole(h) == h.rerr = "nil" /\ HasSuffix(h.line, crlf)

NonEmpty(t) == t # <<>>

\* The tokens of a whole line: its keyword, then its fields.
Fields(line) == SelectSeq(Split(SubSeq(line, 1, Len(line) - 2), SPC), NonEmpty)

Keyword(line) == IF Fields(line) = <<>> THEN <<>> ELSE Fields(line)[1]

\* The whole line's keyword is kw or kwB: the line begins with it, and a space
\* or the end of the line follows.
HasKeyword(line, kw, kwB) ==
    /\ HasPrefix(line, kw) \/ HasPrefix(line, kwB)
    /\ line[Len(kw) + 1] \in {SPC, CR}

Keywords ==
    {cmdSet, cmdSetB, cmdGet, cmdGetB, cmdGets, cmdGetsB, cmdClose, cmdCloseB,
     cmdDelete, cmdDeleteB, cmdIncr, cmdIncrB, cmdDecr, cmdDecrB}

\* The capability does as a map does and the socket takes what is written.
Sound == ~env.enr /\ env.eerr = "nil" /\ env.wok

\* The session has taken all the client sent and waits for a line.
Settled == pc = "AwaitingLine" /\ net = <<>> /\ sock = <<>> /\ rbuf = <<>>

\* C1: with a faultless capability and socket, once the session has taken a
\* valid set of k (1 byte, "5") followed by get k, however the bytes arrived,
\* it has written STORED and then exactly VALUE k 0 1, the item and END.
C1_SetThenGet ==
    (env = NoFault /\ sent = <<"set", "get">> /\ Settled)
        => out = resultStored \o valueBlock(keyK, dataFive) \o resultEnd

NoreplyTokens == {noreplyLower, noreplyUpper}

\* A whole set, delete, incr or decr line with all its fields and a noreply token.
WithNoreply(line) ==
    LET f == Fields(line)
    IN  /\ Len(f) >= 3
        /\ f[Len(f)] \in NoreplyTokens
        /\ \/ f[1] \in {cmdSet, cmdSetB} /\ Len(f) = 6
           \/ f[1] \in {cmdDelete, cmdDeleteB} /\ Len(f) = 3
           \/ f[1] \in {cmdIncr, cmdIncrB, cmdDecr, cmdDecrB} /\ Len(f) = 4

\* C2: a set, delete, incr or decr whose line carries the noreply token writes
\* no byte of response, and the storage operation is invoked exactly once.
C2_NoreplySilent ==
    \A i \in 1..Len(hist) :
        (Whole(hist[i]) /\ WithNoreply(hist[i].line) /\ hist[i].ferr = "nil" /\ Sound)
            => hist[i].resp = <<>> /\ Len(hist[i].ops) = 1

\* C3: a whole set line with other than 4 or 5 fields after the keyword is
\* answered with ERROR (on a socket that takes the write), no item byte is read
\* for it, the capability is not invoked, and the session goes on to the next line.
C3_SetFieldCount ==
    /\ \A i \in 1..Len(hist) :
          (/\ Whole(hist[i])
           /\ HasKeyword(hist[i].line, cmdSet, cmdSetB)
           /\ Len(Fields(hist[i].line)) - 1 \notin {4, 5})
              => /\ hist[i].resp = IF env.wok THEN resultError ELSE <<>>
                 /\ hist[i].item = <<>>
                 /\ hist[i].ops = <<>>
                 /\ hist[i].end = "AwaitingLine"
    /\ (pc = "ReadingItemBytes" /\ HasSuffix(pend.line, crlf)
            /\ HasKeyword(pend.line, cmdSet, cmdSetB))
          => Len(Fields(pend.line)) - 1 \in {4, 5}

\* C3 happens: set hello (1 field) and a set line of 6 fields were each answered
\* with ERROR and nothing else was done for them.
C3_Witness ==
    \E i, j \in 1..Len(hist) :
        /\ hist[i].line = msgSetHello /\ hist[i].resp = resultError /\ hist[i].ops = <<>>
        /\ hist[j].line = msgSetSix /\ hist[j].resp = resultError /\ hist[j].ops = <<>>

\* C4: a whole set line of 4 or 5 fields whose length field is negative is
\* answered with ERROR and the session goes on to the next line: no panic.
C4_NegativeLength ==
    \A i \in 1..Len(hist) :
        (/\ Whole(hist[i])
         /\ HasKeyword(hist[i].line, cmdSet, cmdSetB)
         /\ Len(Fields(hist[i].line)) - 1 \in {4, 5}
         /\ Head(Fields(hist[i].line)[5]) = "-"
         /\ env.wok)
            => hist[i].resp = resultError /\ hist[i].end = "AwaitingLine"

\* C5: once the read of a line has failed other than by EOF, the session is
\* not reading again: the connection is closed.
C5_ReadFailureCloses == idled => pc = "Closed"

\* The line with its upper-case keyword in lower case.
RECURSIVE LowerCased(_, _)
LowerCased(line, pairs) ==
    IF pairs = <<>> THEN line
    ELSE IF HasPrefix(line, pairs[1][1])
    THEN pairs[1][2] \o SubSeq(line, Len(pairs[1][1]) + 1, Len(line))
    ELSE LowerCased(line, Tail(pairs))

KeywordPairs ==
    << <<cmdSetB, cmdSet>>, <<cmdGetsB, cmdGets>>, <<cmdGetB, cmdGet>>,
       <<cmdCloseB, cmdClose>>, <<cmdDeleteB, cmdDelete>>, <<cmdIncrB, cmdIncr>>,
       <<cmdDecrB, cmdDecr>> >>

\* What the lower-case line does on store st, having read item bytes b.
LowerCaseOutcome(line, b, st, e) ==
    LET low == LowerCased(line, KeywordPairs)
        r == scanSetLine(low, FALSE)
        p == [key |-> r.key, size |-> r.size, noreply |-> r.noreply, rerr |-> "nil"]
    IN  IF caseOf(low) # "set" THEN dispatch(low, "nil", st, e)
        ELSE IF r.err \/ r.size = -1
        THEN Outcome(st, Flushed(e, resultError), <<>>, "nil", TRUE, FALSE)
        ELSE setStore(p, b, st, e)

\* C6: a whole line with an upper-case keyword does what the same line with the
\* keyword in lower case does: the same calls of the capability, the same
\* response, the same continuation.
C6_UpperAsLower ==
    \A i \in 1..Len(hist) :
        (/\ Whole(hist[i]) /\ hist[i].ferr = "nil"
         /\ Keyword(hist[i].line) \in {cmdSetB, cmdGetB, cmdGetsB, cmdCloseB,
                                      cmdDeleteB, cmdIncrB, cmdDecrB})
            => LET o == LowerCaseOutcome(hist[i].line, hist[i].item, hist[i].before, env)
               IN  /\ hist[i].resp = o.resp
                   /\ Len(hist[i].ops) = Len(o.ops)
                   /\ \A k \in 1..Len(o.ops) :
                         /\ hist[i].ops[k].op = o.ops[k].op
                         /\ hist[i].ops[k].key = o.ops[k].key
                         /\ hist[i].ops[k].arg = o.ops[k].arg
                   /\ hist[i].end = after(o)

\* C7: a whole get line with one key for which the capability returns a nil
\* value (without asking for suppression) is answered, on a socket that takes the
\* write, with exactly END: no VALUE block.
C7_GetAbsent ==
    \A i \in 1..Len(hist) :
        (/\ Whole(hist[i])
         /\ HasKeyword(hist[i].line, cmdGet, cmdGetB)
         /\ Len(Fields(hist[i].line)) = 2
         /\ Fields(hist[i].line)[2] \notin DOMAIN hist[i].before \/ env.eerr # "nil"
         /\ ~env.enr /\ env.wok)
            => /\ hist[i].resp = resultEnd
               /\ hist[i].ops = <<Call("Get", Fields(hist[i].line)[2], Nil, FALSE)>>

\* C7 happens: get k on a store without k was answered with END.
C7_Witness ==
    \E i \in 1..Len(hist) :
        /\ hist[i].line = msgGet
        /\ keyK \notin DOMAIN hist[i].before
        /\ hist[i].resp = resultEnd
        /\ out = resultEnd

\* The iteration h handled a whole delete line of the one key.
DeleteOf(h, key) ==
    /\ Whole(h)
    /\ HasKeyword(h.line, cmdDelete, cmdDeleteB)
    /\ Len(Fields(h.line)) = 2
    /\ Fields(h.line)[2] = key

\* C8: a whole delete line with one key invokes Delete once and is answered
\* with DELETED when the capability reports the key deleted, with NOT_FOUND
\* otherwise; with a capability that does as a map does, a later delete of the
\* same key on the connection, with nothing stored in between, is answered with
\* NOT_FOUND.
C8_Delete ==
    /\ \A i \in 1..Len(hist) : \A key \in {keyK, keyJ} :
          (DeleteOf(hist[i], key) /\ ~env.enr /\ env.wok)
              => /\ hist[i].ops = <<Call("Delete", key, Nil, FALSE)>>
                 /\ hist[i].resp =
                        IF env.eerr = "nil" /\ key \in DOMAIN hist[i].before
                        THEN resultDeleted ELSE resultNotFound
    /\ \A i, j \in 1..Len(hist) : \A key \in {keyK, keyJ} :
          (/\ i < j /\ Sound
           /\ DeleteOf(hist[i], key) /\ DeleteOf(hist[j], key)
           /\ \A m \in (i + 1)..(j - 1) : hist[m].ops = <<>>)
              => hist[j].resp = resultNotFound

\* C8 happens: delete k was answered with DELETED, then delete k again with
\* NOT_FOUND.
C8_Witness ==
    /\ Len(hist) = 2
    /\ hist[1].line = msgDelete /\ hist[1].resp = resultDeleted
    /\ hist[2].line = msgDelete /\ hist[2].resp = resultNotFound
    /\ out = resultDeleted \o resultNotFound

\* C9: a whole incr line with a key and a decimal delta invokes Incr once with
\* that key and delta, and is answered with the new value in decimal and \r\n
\* when the capability reports the key found, with NOT_FOUND otherwise.
C9_Incr ==
    \A i \in 1..Len(hist) :
        (/\ Whole(hist[i])
         /\ HasKeyword(hist[i].line, cmdIncr, cmdIncrB)
         /\ Len(Fields(hist[i].line)) = 3
         /\ IsNumber(Fields(hist[i].line)[3])
         /\ ~env.enr /\ env.wok)
            => LET key == Fields(hist[i].line)[2]
                   delta == ParseDec(Fields(hist[i].line)[3])
                   st == hist[i].before
               IN  /\ hist[i].ops = <<Call("Incr", key, delta, FALSE)>>
                   /\ hist[i].resp =
                          IF env.eerr = "nil" /\ key \in DOMAIN st /\ IsNumber(st[key])
                          THEN FormatDec(ParseDec(st[key]) + delta) \o crlf
                          ELSE resultNotFound

\* C9 happens: incr k 2 on a store that holds 5 for k was answered with 7.
C9_Witness ==
    \E i \in 1..Len(hist) :
        /\ hist[i].line = msgIncr
        /\ keyK \in DOMAIN hist[i].before /\ hist[i].before[keyK] = dataFive
        /\ hist[i].resp = <<"7", CR, LF>>
        /\ hist[i].ops = <<Call("Incr", keyK, 2, FALSE)>>

\* C10 as stated: a whole line whose keyword is none of the recognized ones
\* invokes nothing, writes nothing, and the session goes on to the next line.
C10_UnknownKeyword ==
    \A i \in 1..Len(hist) :
        (Whole(hist[i]) /\ Keyword(hist[i].line) \notin Keywords)
            => /\ hist[i].ops = <<>>
               /\ hist[i].resp = <<>>
               /\ hist[i].end = "AwaitingLine"

\* C10, amended: a whole line that begins with none of the recognized keywords
\* invokes nothing, writes nothing, and the session goes on to the next line.
C10_NoKeywordPrefix ==
    \A i \in 1..Len(hist) :
        (Whole(hist[i]) /\ \A kw \in Keywords : ~HasPrefix(hist[i].line, kw))
            => /\ hist[i].ops = <<>>
               /\ hist[i].resp = <<>>
               /\ hist[i].end = "AwaitingLine"

\* C10 happens: foo k did nothing, and the get k after it was answered.
C10_Witness ==
    /\ Len(hist) = 2
    /\ hist[1].line = msgFoo /\ hist[1].ops = <<>> /\ hist[1].resp = <<>>
    /\ hist[2].line = msgGet /\ hist[2].resp = resultEnd
    /\ out = resultEnd

\* C11: a whole close or CLOSE line ends the session: nothing is written for it,
\* the capability is not invoked, the connection is closed, and no line is
\* dispatched after it.
C11_Close ==
    \A i \in 1..Len(hist) :
        (Whole(hist[i]) /\ HasKeyword(hist[i].line, cmdClose, cmdCloseB))
            => /\ hist[i].resp = <<>>
               /\ hist[i].ops = <<>>
               /\ hist[i].end = "Closed"
               /\ i = Len(hist)
               /\ pc = "Closed"

\* C11 happens: close was handled while the get k sent after it was still on
\* its way; the connection is closed and nothing was written.
C11_Witness ==
    /\ sent = <<"close", "get">>
    /\ Len(hist) = 1
    /\ hist[1].line = msgClose
    /\ net = msgGet
    /\ pc = "Closed"
    /\ out = <<>>

\* C12: when the read of a set's item bytes fails or comes up short, the
\* connection is closed: Set is not invoked, nothing is written, and the session
\* does not go back to awaiting a line.
C12_ShortItemCloses ==
    \A i \in 1..Len(hist) :
        hist[i].ferr # "nil"
            => /\ hist[i].ops = <<>>
               /\ hist[i].resp = <<>>
               /\ hist[i].end = "Closed"

\* C13: a set without noreply for which Set was invoked is answered, on a
\* socket that takes the write and with no suppression asked for, with exactly
\* STORED when the store reported success and exactly NOT_STORED when it
\* reported a failure.
C13_StoredOrNotStored ==
    \A i \in 1..Len(hist) :
        (/\ hist[i].ops # <<>>
         /\ hist[i].ops[1].op = "Set"
         /\ ~WithNoreply(hist[i].line)
         /\ ~env.enr /\ env.wok)
            => hist[i].resp = IF env.eerr = "nil" THEN resultStored ELSE resultNotStored

\* C14: an iteration in which a write or flush of a response failed closes the
\* connection, and no line is dispatched after it.
C14_WriteFailureFatal ==
    \A i \in 1..Len(hist) :
        (hist[i].wrote /\ ~env.wok) => hist[i].end = "Closed" /\ i = Len(hist)

\* A whole get or gets line with more than one key.
MultiGet(h) ==
    /\ Whole(h)
    /\ HasKeyword(h.line, cmdGet, cmdGetB) \/ HasKeyword(h.line, cmdGets, cmdGetsB)
    /\ Len(Fields(h.line)) >= 3

\* C15: a whole get line with more than one key, with a faultless capability
\* and socket, invokes the multi-fetch and is answered with bytes that end in
\* END, flushed before the next line is read.
C15_MultiGetEnd ==
    \A i \in 1..Len(hist) :
        (MultiGet(hist[i]) /\ Sound)
            => /\ Len(hist[i].ops) = 1 /\ hist[i].ops[1].op = "Gets"
               /\ HasSuffix(hist[i].resp, resultEnd)

\* Lines of a recognized keyword that the grammar rejects.
MalformedLines ==
    {msgSetHello, msgSetSix, msgSetBadFlags, msgGetBare, msgGetLF, msgDeleteBare,
     msgIncrBad}

\* C16: a malformed line of a recognized keyword is answered, with a faultless
\* capability and socket, with exactly ERROR; the capability is not invoked for
\* it and the session goes on to the next line.
C16_MalformedError ==
    \A i \in 1..Len(hist) :
        (hist[i].rerr = "nil" /\ hist[i].line \in MalformedLines /\ Sound)
            => /\ hist[i].resp = resultError
               /\ hist[i].ops = <<>>
               /\ hist[i].end = "AwaitingLine"

\* The bytes the client has sent, in order.
RECURSIVE SentBytes(_)
SentBytes(ms) ==
    IF ms = <<>> THEN <<>> ELSE Msgs[Head(ms)] \o SentBytes(Tail(ms))

\* t occurs in s as a run of adjacent bytes.
Occurs(t, s) ==
    \E k \in 0..(Len(s) - Len(t)) : SubSeq(s, k + 1, k + Len(t)) = t

\* C17: whenever Set is invoked, the session has consumed, right after the
\* command line in the client's stream, exactly the declared length plus two
\* bytes, and the value passed is the first declared-length bytes of them.
C17_SetAfterWholeItem ==
    \A i \in 1..Len(hist) :
        (hist[i].ops # <<>> /\ hist[i].ops[1].op = "Set")
            => LET size == ParseDec(Fields(hist[i].line)[5])
               IN  /\ Whole(hist[i])
                   /\ Len(hist[i].item) = size + 2
                   /\ hist[i].ops[1].arg = SubSeq(hist[i].item, 1, size)
                   /\ Occurs(hist[i].line \o hist[i].item, SentBytes(sent))

\* A value longer than what one read of the line leaves in the reader is
\* stored whole: its item took more than one read.
C17_Witness ==
    /\ Len(hist) = 1
    /\ Len(hist[1].line) + Len(hist[1].item) > BufSize
    /\ hist[1].item = dataLong \o crlf
    /\ hist[1].ops # <<>> /\ hist[1].ops[1].op = "Set" /\ hist[1].ops[1].arg = dataLong
    /\ EngineGet(store, keyK) = dataLong

\* C18: whatever goes wrong in this session (a malformed line, a framing
\* error, an I/O failure, a bad Set length), another session served by the same
\* process stays open and awaiting its next line.
C18_SessionsIsolated ==
    env.peer => peer.pc = "AwaitingLine"

\* The operations of the capability that look a key up.
Lookups == {"Get", "Delete", "Incr", "Decr"}

\* C19: when the capability returns an error from Get, Delete, Incr or Decr
\* (invoked for a whole line, and leaving the reply to the session, on a socket
\* that takes it), the response is END for a get and NOT_FOUND for the others,
\* and the session goes on to the next line.
C19_StorageErrorSwallowed ==
    \A i \in 1..Len(hist) :
        (/\ env.eerr # "nil" /\ ~env.enr /\ env.wok
         /\ Whole(hist[i])
         /\ hist[i].ops # <<>> /\ hist[i].ops[1].op \in Lookups)
            => /\ hist[i].resp = IF hist[i].ops[1].op = "Get" THEN resultEnd
                                 ELSE resultNotFound
               /\ hist[i].end = "AwaitingLine"

\* The key is stored, the capability fails with a server error: the delete is
\* answered NOT_FOUND, the get that follows END, and the session awaits a line.
C19_Witness ==
    /\ env.eerr = "ErrServerError" /\ ~env.enr /\ env.wok
    /\ Len(hist) = 2
    /\ hist[1].line = msgDelete /\ hist[1].before = [k \in {keyK} |-> dataFive]
    /\ hist[1].ops # <<>> /\ hist[1].resp = resultNotFound
    /\ hist[2].line = msgGet /\ hist[2].ops # <<>> /\ hist[2].resp = resultEnd
    /\ pc = "AwaitingLine"
    /\ out = resultNotFound \o resultEnd

\* The bytes that the dispatched lines and their items are made of, in order.
RECURSIVE Dispatched(_)
Dispatched(h) ==
    IF h = <<>> THEN <<>> ELSE Head(h).line \o Head(h).item \o Dispatched(Tail(h))

\* The bytes the session holds or has dispatched: lines and items dispatched,
\* then the line and item bytes of a set that awaits the rest of its item, then
\* what the reader holds.
Consumed ==
    Dispatched(hist)
        \o (IF pc = "ReadingItemBytes" THEN pend.line \o item ELSE <<>>)
        \o rbuf

\* The bytes the session has taken from the socket.
Taken ==
    SubSeq(SentBytes(sent), 1, Len(SentBytes(sent)) - Len(net) - Len(sock))

\* C20: every byte the session has taken from the socket is, in order and
\* once, part of a dispatched line, of a Set's item, or still in the reader for
\* the iterations that follow (capability and socket faultless).
C20_NoByteLost ==
    Sound => Consumed = Taken

====
